---- MODULE Spec2Model ----
(***************************************************************************)
(* Model of apis.FieldError (src/apis/field_error.go): the accumulation,   *)
(* prefixing, normalization and rendering of field errors.                 *)
(*                                                                         *)
(* A Go string is a sequence of one-character strings, so that Split,      *)
(* Join, Sprintf, HasPrefix and the comparison < work on characters.       *)
(* A *FieldError is a record; the nil pointer is the record with nil set.  *)
(* A map is a record [nilmap, m]: m is the function from keys to entries,  *)
(* nilmap says that the Go map is nil (reads succeed, writes panic).       *)
(*                                                                         *)
(* The second part models the ConditionManager of                          *)
(* src/apis/duck/v1alpha1/condition_set.go: the conditions held by an      *)
(* accessor and the calls that mark them.                                  *)
(***************************************************************************)
EXTENDS Integers, Sequences, FiniteSets, TLC

VARIABLES fe, last, manager, conditions, now, call

\* the variables of a validation pass and those of a condition manager
fvars == <<fe, last>>

cvars == <<manager, conditions, now, call>>

vars == <<fe, last, manager, conditions, now, call>>

-----------------------------------------------------------------------------
(* Bounds of the model.                                                    *)

MaxPaths == 2

MaxAlso == 2

MaxPrefix == 2

-----------------------------------------------------------------------------
(* Strings.                                                                *)

CurrentField == <<>>

sFoo == <<"f", "o", "o">>

sBar == <<"b", "a", "r">>

sBaz == <<"b", "a", "z">>

sKeyA == <<"A">>

sMsgA == <<"a">>

sMsgADash == <<"a", "-">>

sDash == <<"-">>

sIndex0 == <<"[", "0", "]">>

sMissingFields ==
    <<"m", "i", "s", "s", "i", "n", "g", " ", "f", "i", "e", "l", "d", "(", "s", ")">>

\* The byte value of each character the model uses (Go compares strings bytewise).
Byte ==
    ("\n" :> 10) @@ (" " :> 32) @@ ("(" :> 40) @@ (")" :> 41) @@ ("," :> 44) @@
    ("-" :> 45) @@ ("." :> 46) @@ ("0" :> 48) @@ ("1" :> 49) @@ ("2" :> 50) @@
    ("3" :> 51) @@ ("4" :> 52) @@ ("5" :> 53) @@ ("6" :> 54) @@ ("7" :> 55) @@
    ("8" :> 56) @@ ("9" :> 57) @@ (":" :> 58) @@ ("A" :> 65) @@ ("[" :> 91) @@
    ("B" :> 66) @@
    ("F" :> 70) @@ ("R" :> 82) @@ ("Z" :> 90) @@ ("]" :> 93) @@ ("a" :> 97) @@ ("b" :> 98) @@ ("d" :> 100) @@ ("e" :> 101) @@
    ("f" :> 102) @@ ("g" :> 103) @@ ("i" :> 105) @@ ("l" :> 108) @@ ("m" :> 109) @@
    ("n" :> 110) @@ ("o" :> 111) @@ ("r" :> 114) @@ ("s" :> 115) @@ ("y" :> 121) @@ ("z" :> 122)

\* a < b on Go strings
RECURSIVE StringLess(_, _)
StringLess(a, b) ==
    IF b = <<>> THEN FALSE
    ELSE IF a = <<>> THEN TRUE
    ELSE IF Head(a) = Head(b) THEN StringLess(Tail(a), Tail(b))
    ELSE Byte[Head(a)] < Byte[Head(b)]

\* strings.Split(s, sep) for a one-character separator
RECURSIVE Split(_, _)
Split(s, sep) ==
    IF \E i \in 1..Len(s) : s[i] = sep
    THEN LET i == CHOOSE i \in 1..Len(s) : s[i] = sep /\ \A j \in 1..(i - 1) : s[j] # sep
         IN  <<SubSeq(s, 1, i - 1)>> \o Split(SubSeq(s, i + 1, Len(s)), sep)
    ELSE <<s>>

\* strings.Join(elems, sep)
RECURSIVE Join(_, _)
Join(elems, sep) ==
    IF elems = <<>> THEN <<>>
    ELSE IF Len(elems) = 1 THEN elems[1]
    ELSE elems[1] \o sep \o Join(Tail(elems), sep)

\* isIndex testing the prefix only
isIndex_PrefixOnly(part) == Len(part) > 0 /\ part[1] = "["

\* strings.HasPrefix(part, "[") && strings.HasSuffix(part, "]")
isIndex(part) == Len(part) > 0 /\ part[1] = "[" /\ part[Len(part)] = "]"

\* the inner loop of flatten over the fragments of one part
RECURSIVE flattenPart(_, _)
flattenPart(newPath, ps) ==
    IF ps = <<>> THEN newPath
    ELSE LET p == Head(ps)
             next == IF p = CurrentField THEN newPath
                     ELSE IF Len(newPath) > 0 /\ isIndex(p)
                          THEN [newPath EXCEPT ![Len(newPath)] = @ \o p]
                          ELSE Append(newPath, p)
         IN  flattenPart(next, Tail(ps))

\* the outer loop of flatten over the parts
RECURSIVE flattenParts(_, _)
flattenParts(newPath, path) ==
    IF path = <<>> THEN newPath
    ELSE flattenParts(flattenPart(newPath, Split(Head(path), ".")), Tail(path))

flatten(path) == Join(flattenParts(<<>>, path), <<".">>)

\* strconv of a non-negative int as fmt's %d prints it
Digit == <<"0", "1", "2", "3", "4", "5", "6", "7", "8", "9">>

RECURSIVE FormatInt(_)
FormatInt(n) ==
    IF n < 0 THEN <<"-">> \o FormatInt(0 - n)
    ELSE IF n < 10 THEN <<Digit[n + 1]>>
    ELSE FormatInt(n \div 10) \o <<Digit[(n % 10) + 1]>>

asIndex(index) == <<"[">> \o FormatInt(index) \o <<"]">>

asKey(k) == <<"[">> \o k \o <<"]">>

containsString(slice, s) == \E i \in 1..Len(slice) : slice[i] = s

RECURSIVE mergePathsFrom(_, _)
mergePathsFrom(newPaths, b) ==
    IF b = <<>> THEN newPaths
    ELSE mergePathsFrom(IF containsString(newPaths, Head(b)) THEN newPaths
                        ELSE Append(newPaths, Head(b)),
                        Tail(b))

mergePaths(a, b) == mergePathsFrom(a, b)

-----------------------------------------------------------------------------
(* The FieldError struct, pointers to it, and its errors map.              *)

EmptyEntries == [k \in {} |-> {}]

\* a nil map[string]FieldError
NilMap == [nilmap |-> TRUE, m |-> EmptyEntries]

\* make(map[string]FieldError, n)
MakeMap == [nilmap |-> FALSE, m |-> EmptyEntries]

\* FieldError{} and &FieldError{}: the zero value of the struct
ZeroFieldError ==
    [nil |-> FALSE, Message |-> <<>>, Paths |-> <<>>, Details |-> <<>>, errors |-> NilMap]

\* (*FieldError)(nil)
NilFieldError == [ZeroFieldError EXCEPT !.nil = TRUE]

\* &FieldError{Message: message, Paths: paths, Details: details}
FieldError(message, paths, details) ==
    [ZeroFieldError EXCEPT !.Message = message, !.Paths = paths, !.Details = details]

\* fmt.Sprintf("%s-%s", err.Message, err.Details)
key(err) == err.Message \o <<"-">> \o err.Details

\* every order in which a range statement can visit the keys of the map m
RangeOrders(m) ==
    LET n == Cardinality(DOMAIN m)
    IN  {ord \in [1..n -> DOMAIN m] : \A i, j \in 1..n : i # j => ord[i] # ord[j]}

RangeOrder(m) == CHOOSE ord \in RangeOrders(m) : TRUE

\* for k, err := range inner { merge err into errors[k] or insert it }
mergeEntries(errors, inner) ==
    [k \in (DOMAIN errors) \cup (DOMAIN inner) |->
        IF k \in DOMAIN errors
        THEN IF k \in DOMAIN inner
             THEN [errors[k] EXCEPT !.Paths = mergePaths(@, inner[k].Paths)]
             ELSE errors[k]
        ELSE inner[k]]

RECURSIVE getNormalizedErrors(_), getNormalizedErrorsIn(_, _), collectNested(_, _, _)

\* for _, e := range fe.errors, visiting the keys in the order ord
collectNested(errors, nested, ord) ==
    IF ord = <<>> THEN errors
    ELSE collectNested(mergeEntries(errors, getNormalizedErrors(nested[Head(ord)]).m),
                       nested, Tail(ord))

\* a normalization that enters the accumulator's own fields without testing Message
getNormalizedErrorsIn_KeepsEmptyMessage(f, ord) ==
    IF f.nil THEN NilMap
    ELSE LET err == FieldError(f.Message, f.Paths, f.Details)
         IN  [MakeMap EXCEPT !.m = collectNested((key(err) :> err), f.errors.m, ord)]

\* fe.getNormalizedErrors() when the range over fe.errors visits the keys in the order ord
getNormalizedErrorsIn(f, ord) ==
    IF f.nil THEN NilMap
    ELSE LET err == FieldError(f.Message, f.Paths, f.Details)
             leaf == IF f.Message # <<>> THEN (key(err) :> err) ELSE EmptyEntries
         IN  [MakeMap EXCEPT !.m = collectNested(leaf, f.errors.m, ord)]

getNormalizedErrors(f) == getNormalizedErrorsIn(f, RangeOrder(f.errors.m))

-----------------------------------------------------------------------------
(* Outcomes of a call: a returned value, or a runtime panic.               *)

Return(v) == [panic |-> FALSE, val |-> v]

Panic == [panic |-> TRUE, val |-> NilFieldError]

\* the loop body of an Also that stores the argument's own Message, Paths and Details
\* under its key and leaves the argument's nested errors behind
alsoEach_StoresLeafFields(st, e) ==
    IF st.panic \/ e.nil
    THEN [st EXCEPT !.panic = TRUE]
    ELSE LET k == key(e)
         IN  IF k \in DOMAIN st.errors.m
             THEN LET err == st.errors.m[k]
                  IN  [st EXCEPT !.errors.m[k].Paths = mergePaths(@, err.Paths)]
             ELSE IF st.errors.nilmap
                  THEN [st EXCEPT !.panic = TRUE]
                  ELSE [st EXCEPT !.errors.m =
                                      @ @@ (k :> FieldError(e.Message, e.Paths, e.Details))]

\* one iteration of the loop of Also over errs; st is [panic, errors]
alsoEach(st, e) ==
    IF st.panic \/ e.nil
    THEN [st EXCEPT !.panic = TRUE]
    ELSE LET k == key(e)
         IN  IF k \in DOMAIN st.errors.m
             THEN LET err == st.errors.m[k]
                  IN  [st EXCEPT !.errors.m[k].Paths = mergePaths(@, err.Paths)]
             ELSE IF st.errors.nilmap
                  THEN [st EXCEPT !.panic = TRUE]
                  ELSE [st EXCEPT !.errors.m = @ @@ (k :> ZeroFieldError)]

RECURSIVE alsoLoop(_, _)
alsoLoop(st, errs) ==
    IF errs = <<>> THEN st ELSE alsoLoop(alsoEach(st, Head(errs)), Tail(errs))

\* fe.Also(errs...)
Also(f, errs) ==
    LET collected == IF ~f.nil THEN getNormalizedErrors(f) ELSE NilMap
        st == alsoLoop([panic |-> FALSE, errors |-> collected], errs)
    IN  IF st.panic THEN Panic
        ELSE IF Cardinality(DOMAIN st.errors.m) = 0 THEN Return(NilFieldError)
        ELSE Return([ZeroFieldError EXCEPT !.errors = st.errors])

\* newPaths of ViaField: flatten(append(prefix, oldPath)) for every old path
prefixPaths(prefix, paths) ==
    [i \in 1..Len(paths) |-> flatten(Append(prefix, paths[i]))]

\* the loop of ViaField over the normalized errors, visited in the order ord
RECURSIVE viaLoop(_, _, _, _)
viaLoop(r, normalized, prefix, ord) ==
    IF ord = <<>> \/ r.panic THEN r
    ELSE LET e == [normalized[Head(ord)] EXCEPT !.Paths = prefixPaths(prefix, @)]
         IN  viaLoop(Also(r.val, <<e>>), normalized, prefix, Tail(ord))

\* ViaField without its "if fe == nil { return nil }": a nil receiver then yields the
\* fresh &FieldError{} the loop starts from
ViaFieldIn_NoNilGuard(f, prefix, ord) ==
    viaLoop(Return(ZeroFieldError), getNormalizedErrors(f).m, prefix, ord)

\* fe.ViaField(prefix...) when the range visits the normalized errors in the order ord
ViaFieldIn(f, prefix, ord) ==
    IF f.nil THEN Return(NilFieldError)
    ELSE viaLoop(Return(ZeroFieldError), getNormalizedErrors(f).m, prefix, ord)

\* the outcomes of fe.ViaField(prefix...) over every range order
ViaFieldOutcomes(f, prefix) ==
    {ViaFieldIn(f, prefix, ord) : ord \in RangeOrders(getNormalizedErrors(f).m)}

ViaIndexOutcomes(f, index) == ViaFieldOutcomes(f, <<asIndex(index)>>)

\* fe.ViaIndex(index).ViaField(field): the second call runs on what the first returns
ViaFieldIndexOutcomes(f, field, index) ==
    UNION {IF r.panic THEN {r} ELSE ViaFieldOutcomes(r.val, <<field>>) :
              r \in ViaIndexOutcomes(f, index)}

ViaKeyOutcomes(f, k) == ViaFieldOutcomes(f, <<asKey(k)>>)

\* fe.ViaKey(key).ViaField(field)
ViaFieldKeyOutcomes(f, field, k) ==
    UNION {IF r.panic THEN {r} ELSE ViaFieldOutcomes(r.val, <<field>>) :
              r \in ViaKeyOutcomes(f, k)}

-----------------------------------------------------------------------------
(* Rendering.                                                              *)

\* the insertion of s into the ascending list sorted
RECURSIVE insertString(_, _)
insertString(sorted, s) ==
    IF sorted = <<>> THEN <<s>>
    ELSE IF StringLess(s, Head(sorted)) THEN <<s>> \o sorted
    ELSE <<Head(sorted)>> \o insertString(Tail(sorted), s)

\* Error without line 272: the paths are joined in the order they are held
sortPaths_Unsorted(paths) == paths

\* sort.Slice(e.Paths, func(i, j int) bool { return e.Paths[i] < e.Paths[j] })
RECURSIVE sortPaths(_)
sortPaths(paths) ==
    IF paths = <<>> THEN <<>>
    ELSE insertString(sortPaths(Tail(paths)), Head(paths))

\* Error with the format of line 274 on both branches: the details are left out
renderEntry_NoDetails(e) ==
    e.Message \o <<":", " ">> \o Join(sortPaths(e.Paths), <<",", " ">>)

\* one element of errs in Error
renderEntry(e) ==
    IF e.Details = <<>>
    THEN e.Message \o <<":", " ">> \o Join(sortPaths(e.Paths), <<",", " ">>)
    ELSE e.Message \o <<":", " ">> \o Join(sortPaths(e.Paths), <<",", " ">>)
         \o <<"\n">> \o e.Details

\* the orders the entries can have after the range over the map and the (unstable)
\* sort.Slice by Message: every arrangement that is ascending by Message
ErrorOrders(m) ==
    {ord \in RangeOrders(m) :
        \A i, j \in 1..Len(ord) :
            i < j => ~StringLess(m[ord[j]].Message, m[ord[i]].Message)}

\* the string built by Error when the sorted entries are in the order ord
ErrorIn(f, ord) ==
    LET m == getNormalizedErrors(f).m
    IN  Join([i \in 1..Len(ord) |-> renderEntry(m[ord[i]])], <<"\n">>)

\* fe.Error(): len(fe.errors) dereferences fe, so a nil receiver panics
ErrorOutcomes(f) ==
    IF f.nil THEN {[panic |-> TRUE, out |-> <<>>]}
    ELSE {[panic |-> FALSE, out |-> ErrorIn(f, ord)] :
              ord \in ErrorOrders(getNormalizedErrors(f).m)}

\* The receiver after Error: every normalized entry shares its Paths array with the
\* receiver (or with the nested entry it was copied from), and sort.Slice sorts it in
\* place.
RECURSIVE sortedInPlace(_)
sortedInPlace(f) ==
    [f EXCEPT !.Paths = IF f.Message # <<>> THEN sortPaths(@) ELSE @,
              !.errors.m = [k \in DOMAIN @ |-> sortedInPlace(@[k])]]

-----------------------------------------------------------------------------
(* The inputs of a validation pass.                                        *)

RECURSIVE SeqsUpTo(_, _)
SeqsUpTo(S, n) ==
    IF n = 0 THEN {<<>>}
    ELSE LET shorter == SeqsUpTo(S, n - 1)
         IN  shorter \cup {Append(q, x) : q \in shorter, x \in S}

PathLists == SeqsUpTo({sFoo, sBar, CurrentField}, MaxPaths)

\* ErrMissingField(fieldPaths...)
ErrMissingField(fieldPaths) == FieldError(sMissingFields, fieldPaths, <<>>)

\* the leaves a validation starts from: struct literals and ErrMissingField
Leaves ==
    {FieldError(sMsgA, paths, details) : paths \in PathLists, details \in {<<>>, sDash}}
    \cup {FieldError(sMsgADash, paths, <<>>) : paths \in PathLists}
    \cup {ErrMissingField(paths) : paths \in PathLists}

\* the arguments handed to Also, besides the accumulator itself
ArgPool ==
    {NilFieldError, ZeroFieldError,
     FieldError(sMsgA, <<sFoo>>, <<>>), FieldError(sMsgA, <<sFoo>>, sDash),
     FieldError(sMsgADash, <<sFoo>>, <<>>)}

Prefixes == SeqsUpTo({sBaz, sIndex0}, MaxPrefix)

Indices == {0, 12}

Keys == {sKeyA}

Fields == {sBaz}

-----------------------------------------------------------------------------
(* The state machine.  fe is the accumulator a validation pass holds, as   *)
(* in the tests' "fe = fe.Also(&err)", "fe = fe.ViaField(prefix...)" and   *)
(* "got := fe.Error()".  A call step evaluates the right-hand side and     *)
(* records it in last, with its receiver, arguments and outcome; Assign    *)
(* stores the result.  A panic ends the run.                               *)

\* What a call leaves in the storage its caller still holds.  Also writes newErrs
\* (allocated at line 106), the map getNormalizedErrors made (line 136) and the
\* array mergePaths made (line 163); the receiver's and the arguments' fields and
\* arrays are only read.
alsoFrame(f, errs) == [recv |-> f, errs |-> errs]

viaFieldFrame_InPlace(f, prefix) ==
    [recv |-> IF f.nil THEN f
              ELSE [f EXCEPT !.Paths = prefixPaths(prefix, f.Paths)]]

\* ViaField writes newErr (line 57), newPaths (made at line 60) and e, the loop's
\* copy of an entry (line 64); the receiver's Paths array is only read (line 61).
viaFieldFrame(f, prefix) == [recv |-> f]

\* no condition manager is in use during a validation pass
NoManagerCall == [op |-> "none", t |-> <<>>, happyBefore |-> [nil |-> TRUE]]

NoManager ==
    /\ manager = [happy |-> <<>>, dependents |-> <<>>, accessorNil |-> TRUE]
    /\ conditions = <<>>
    /\ now = 0
    /\ call = NoManagerCall

NoCall ==
    [op |-> "none", recv |-> NilFieldError, errs |-> <<>>, prefix |-> <<>>,
     index |-> 0, key |-> <<>>, field |-> <<>>,
     panic |-> FALSE, res |-> NilFieldError, out |-> <<>>,
     recvAfter |-> NilFieldError, errsAfter |-> <<>>,
     paths |-> <<>>, value |-> <<>>, fieldPath |-> <<>>, details |-> <<>>]

Init ==
    /\ fe \in Leaves \cup {NilFieldError}
    /\ last = NoCall
    /\ NoManager

\* fe.Also(errs...)
CallAlso ==
    /\ last = NoCall
    /\ \E errs \in SeqsUpTo(ArgPool \cup {fe}, MaxAlso) :
          LET r == Also(fe, errs)
              after == alsoFrame(fe, errs)
          IN  /\ fe' = after.recv
              /\ last' = [NoCall EXCEPT !.op = "Also", !.recv = fe, !.errs = errs,
                                        !.panic = r.panic, !.res = r.val,
                                        !.recvAfter = fe', !.errsAfter = after.errs]
    /\ UNCHANGED cvars

\* fe.ViaField(prefix...)
CallViaField ==
    /\ last = NoCall
    /\ \E prefix \in Prefixes : \E r \in ViaFieldOutcomes(fe, prefix) :
          /\ fe' = viaFieldFrame(fe, prefix).recv
          /\ last' = [NoCall EXCEPT !.op = "ViaField", !.recv = fe, !.prefix = prefix,
                                    !.panic = r.panic, !.res = r.val, !.recvAfter = fe']
    /\ UNCHANGED cvars

\* fe.ViaIndex(index)
CallViaIndex ==
    /\ last = NoCall
    /\ \E index \in Indices : \E r \in ViaIndexOutcomes(fe, index) :
          /\ fe' = viaFieldFrame(fe, <<asIndex(index)>>).recv
          /\ last' = [NoCall EXCEPT !.op = "ViaIndex", !.recv = fe, !.index = index,
                                    !.panic = r.panic, !.res = r.val, !.recvAfter = fe']
    /\ UNCHANGED cvars

\* fe.ViaFieldIndex(field, index)
CallViaFieldIndex ==
    /\ last = NoCall
    /\ \E field \in Fields, index \in Indices :
          \E r \in ViaFieldIndexOutcomes(fe, field, index) :
             /\ fe' = viaFieldFrame(fe, <<asIndex(index)>>).recv
             /\ last' = [NoCall EXCEPT !.op = "ViaFieldIndex", !.recv = fe,
                                       !.field = field, !.index = index,
                                       !.panic = r.panic, !.res = r.val,
                                       !.recvAfter = fe']
    /\ UNCHANGED cvars

\* fe.ViaKey(key)
CallViaKey ==
    /\ last = NoCall
    /\ \E k \in Keys : \E r \in ViaKeyOutcomes(fe, k) :
          /\ fe' = viaFieldFrame(fe, <<asKey(k)>>).recv
          /\ last' = [NoCall EXCEPT !.op = "ViaKey", !.recv = fe, !.key = k,
                                    !.panic = r.panic, !.res = r.val, !.recvAfter = fe']
    /\ UNCHANGED cvars

\* fe.ViaFieldKey(field, key)
CallViaFieldKey ==
    /\ last = NoCall
    /\ \E field \in Fields, k \in Keys :
          \E r \in ViaFieldKeyOutcomes(fe, field, k) :
             /\ fe' = viaFieldFrame(fe, <<asKey(k)>>).recv
             /\ last' = [NoCall EXCEPT !.op = "ViaFieldKey", !.recv = fe,
                                       !.field = field, !.key = k,
                                       !.panic = r.panic, !.res = r.val,
                                       !.recvAfter = fe']
    /\ UNCHANGED cvars

\* got := fe.Error(); the receiver's Paths are sorted in place while it runs
CallError ==
    /\ last = NoCall
    /\ \E r \in ErrorOutcomes(fe) :
          /\ fe' = IF r.panic THEN fe ELSE sortedInPlace(fe)
          /\ last' = [NoCall EXCEPT !.op = "Error", !.recv = fe, !.panic = r.panic,
                                    !.res = fe', !.out = r.out,
                                    !.recvAfter = fe']
    /\ UNCHANGED cvars

\* the assignment of the call's result: fe = <result> (got := <string> leaves fe alone)
Assign ==
    /\ last # NoCall
    /\ ~last.panic
    /\ fe' = IF last.op = "Error" THEN fe ELSE last.res
    /\ last' = NoCall
    /\ UNCHANGED cvars

Next ==
    \/ CallAlso
    \/ CallViaField
    \/ CallViaIndex
    \/ CallViaFieldIndex
    \/ CallViaKey
    \/ CallViaFieldKey
    \/ CallError
    \/ Assign

Spec == Init /\ [][Next]_vars

-----------------------------------------------------------------------------
(* Error() as a function of its receiver: the receivers are leaves and the  *)
(* containers Also is documented to build (line 104), a map from key(e) to  *)
(* the leaf e.                                                              *)

MaxEntries == 2

\* the leaves nested in a container
EntryPool ==
    {FieldError(sMsgA, <<sFoo, sBar>>, <<>>), FieldError(sMsgA, <<>>, <<>>),
     FieldError(sMsgA, <<sFoo>>, sDash), FieldError(sMsgADash, <<sBar>>, <<>>),
     ErrMissingField(<<sFoo, CurrentField>>)}

\* &FieldError{errors: map[string]FieldError{key(e): e, ...}} with up to n entries
RECURSIVE Containers(_)
Containers(n) ==
    IF n = 0 THEN {[ZeroFieldError EXCEPT !.errors = MakeMap]}
    ELSE LET smaller == Containers(n - 1)
         IN  smaller \cup
             {[c EXCEPT !.errors.m = (key(e) :> e) @@ @] :
                 <<c, e>> \in {ce \in smaller \X EntryPool :
                                  key(ce[2]) \notin DOMAIN ce[1].errors.m}}

InitError ==
    /\ fe \in Leaves \cup Containers(MaxEntries) \cup {NilFieldError}
    /\ last = NoCall
    /\ NoManager

NextError ==
    \/ CallError
    \/ Assign

SpecError == InitError /\ [][NextError]_vars

-----------------------------------------------------------------------------
(* The leaf constructors.                                                  *)

MaxDetails == 2

sDisallowedFields ==
    <<"m", "u", "s", "t", " ", "n", "o", "t", " ", "s", "e", "t", " ", "t",
      "h", "e", " ", "f", "i", "e", "l", "d", "(", "s", ")">>

sMissingOneOf ==
    <<"e", "x", "p", "e", "c", "t", "e", "d", " ", "e", "x", "a", "c", "t",
      "l", "y", " ", "o", "n", "e", ",", " ", "g", "o", "t", " ", "n", "e",
      "i", "t", "h", "e", "r">>

sMultipleOneOf ==
    <<"e", "x", "p", "e", "c", "t", "e", "d", " ", "e", "x", "a", "c", "t",
      "l", "y", " ", "o", "n", "e", ",", " ", "g", "o", "t", " ", "b", "o",
      "t", "h">>

sInvalidValue ==
    <<"i", "n", "v", "a", "l", "i", "d", " ", "v", "a", "l", "u", "e", " ">>

sInvalidKeyName ==
    <<"i", "n", "v", "a", "l", "i", "d", " ", "k", "e", "y", " ", "n", "a",
      "m", "e", " ">>

sKeyBAtR == <<"b", "@", "r">>

sQuoted == <<"a", "\"", "b">>

sBackslash == <<"a", "\\", "b">>

sCanNotUse ==
    <<"c", "a", "n", " ", "n", "o", "t", " ", "u", "s", "e", " ", "@">>

sDoNotTry ==
    <<"d", "o", " ", "n", "o", "t", " ", "t", "r", "y">>

sFooName ==
    <<"f", "o", "o", "[", "0", "]", ".", "n", "a", "m", "e">>

\* %q without the escaping: the value between two double quotes
Quote_Plain(s) == <<"\"">> \o s \o <<"\"">>

\* the %q verb of fmt.Sprintf (strconv.Quote) on the characters used here: the value
\* in double quotes, a backslash before every double quote and backslash
Quote(s) ==
    <<"\"">>
    \o Join([i \in 1..Len(s) |->
                IF s[i] \in {"\"", "\\"} THEN <<"\\", s[i]>> ELSE <<s[i]>>], <<>>)
    \o <<"\"">>

\* ErrDisallowedFields(fieldPaths...)
ErrDisallowedFields(fieldPaths) == FieldError(sDisallowedFields, fieldPaths, <<>>)

\* ErrInvalidValue(value, fieldPath)
ErrInvalidValue(value, fieldPath) ==
    FieldError(sInvalidValue \o Quote(value), <<fieldPath>>, <<>>)

\* ErrMissingOneOf(fieldPaths...)
ErrMissingOneOf(fieldPaths) == FieldError(sMissingOneOf, fieldPaths, <<>>)

\* ErrMultipleOneOf(fieldPaths...)
ErrMultipleOneOf(fieldPaths) == FieldError(sMultipleOneOf, fieldPaths, <<>>)

\* ErrInvalidKeyName(value, fieldPath, details...)
ErrInvalidKeyName(value, fieldPath, details) ==
    FieldError(sInvalidKeyName \o Quote(value), <<fieldPath>>, Join(details, <<",", " ">>))

Values == {sFoo, sKeyBAtR, sQuoted, sBackslash, CurrentField}

FieldPaths == {sBar, sFooName, CurrentField}

DetailLists == SeqsUpTo({sCanNotUse, sDoNotTry}, MaxDetails)

InitLeaf ==
    /\ fe = NilFieldError
    /\ last = NoCall
    /\ NoManager

CallErrMissingField ==
    /\ last = NoCall
    /\ \E fieldPaths \in PathLists :
          last' = [NoCall EXCEPT !.op = "ErrMissingField", !.paths = fieldPaths,
                                 !.res = ErrMissingField(fieldPaths)]
    /\ UNCHANGED fe
    /\ UNCHANGED cvars

CallErrDisallowedFields ==
    /\ last = NoCall
    /\ \E fieldPaths \in PathLists :
          last' = [NoCall EXCEPT !.op = "ErrDisallowedFields", !.paths = fieldPaths,
                                 !.res = ErrDisallowedFields(fieldPaths)]
    /\ UNCHANGED fe
    /\ UNCHANGED cvars

CallErrInvalidValue ==
    /\ last = NoCall
    /\ \E value \in Values, fieldPath \in FieldPaths :
          last' = [NoCall EXCEPT !.op = "ErrInvalidValue", !.value = value,
                                 !.fieldPath = fieldPath,
                                 !.res = ErrInvalidValue(value, fieldPath)]
    /\ UNCHANGED fe
    /\ UNCHANGED cvars

CallErrMissingOneOf ==
    /\ last = NoCall
    /\ \E fieldPaths \in PathLists :
          last' = [NoCall EXCEPT !.op = "ErrMissingOneOf", !.paths = fieldPaths,
                                 !.res = ErrMissingOneOf(fieldPaths)]
    /\ UNCHANGED fe
    /\ UNCHANGED cvars

CallErrMultipleOneOf ==
    /\ last = NoCall
    /\ \E fieldPaths \in PathLists :
          last' = [NoCall EXCEPT !.op = "ErrMultipleOneOf", !.paths = fieldPaths,
                                 !.res = ErrMultipleOneOf(fieldPaths)]
    /\ UNCHANGED fe
    /\ UNCHANGED cvars

CallErrInvalidKeyName ==
    /\ last = NoCall
    /\ \E value \in Values, fieldPath \in FieldPaths, details \in DetailLists :
          last' = [NoCall EXCEPT !.op = "ErrInvalidKeyName", !.value = value,
                                 !.fieldPath = fieldPath, !.details = details,
                                 !.res = ErrInvalidKeyName(value, fieldPath, details)]
    /\ UNCHANGED fe
    /\ UNCHANGED cvars

NextLeaf ==
    \/ CallErrMissingField
    \/ CallErrDisallowedFields
    \/ CallErrInvalidValue
    \/ CallErrMissingOneOf
    \/ CallErrMultipleOneOf
    \/ CallErrInvalidKeyName
    \/ Assign

SpecLeaf == InitLeaf /\ [][NextLeaf]_vars

-----------------------------------------------------------------------------
(* flatten as a function of its argument.                                  *)

MaxParts == 3

sBarIndexBaz == <<"b", "a", "r", ".", "[", "0", "]", ".", "b", "a", "z">>

\* the parts a path is made of
PartPool == {sFoo, sIndex0, CurrentField, sBarIndexBaz, <<".", "[", "0", "]">>, <<"[">>}

\* the paths of TestFlatten and TestFieldError that are longer than MaxParts or use
\* other parts
TestPaths ==
    {<<sFoo, <<"[", "1", "]">>, <<"[", "2", "]">>, <<"[", "3", "]">>, sBar>>,
     <<sIndex0, sFoo, sBar>>,
     <<sFoo, sBarIndexBaz>>,
     <<sBaz, <<"u", "g", "h">>, CurrentField>>}

FlattenInputs == SeqsUpTo(PartPool, MaxParts) \cup TestPaths

InitFlatten ==
    /\ fe = NilFieldError
    /\ last = NoCall
    /\ NoManager

\* got := flatten(test.indices)
CallFlatten ==
    /\ \E path \in FlattenInputs :
          last' = [NoCall EXCEPT !.op = "flatten", !.paths = path, !.out = flatten(path)]
    /\ UNCHANGED fe
    /\ UNCHANGED cvars

NextFlatten == CallFlatten

SpecFlatten == InitFlatten /\ [][NextFlatten]_vars

-----------------------------------------------------------------------------
(* merge as a function of its argument.                                    *)

MaxErrors == 3

\* sort.Slice(errors, ...) by Message, which is not stable: every arrangement of the
\* list that is ascending by Message
sortByMessage(errors) ==
    LET n == Len(errors)
    IN  {[i \in 1..n |-> errors[pi[i]]] :
            pi \in {f \in [1..n -> 1..n] :
                       /\ \A i, j \in 1..n : f[i] = f[j] => i = j
                       /\ \A i, j \in 1..n :
                             i < j => ~StringLess(errors[f[j]].Message, errors[f[i]].Message)}}

\* for i := 1; i < len(errors); i++ { ... }, with curr the last index of newErrors
RECURSIVE mergeLoop(_, _)
mergeLoop(newErrors, errors) ==
    IF errors = <<>> THEN newErrors
    ELSE LET curr == Len(newErrors)
             e == Head(errors)
         IN  IF newErrors[curr].Message = e.Message /\ newErrors[curr].Details = e.Details
             THEN LET nextPaths ==
                          SelectSeq(e.Paths,
                                    LAMBDA p : ~containsString(newErrors[curr].Paths, p))
                  IN  mergeLoop([newErrors EXCEPT ![curr].Paths = @ \o nextPaths],
                                Tail(errors))
             ELSE mergeLoop(Append(newErrors, e), Tail(errors))

\* merge(errors): the lists it can return
merge(errors) ==
    IF Len(errors) <= 1 THEN {errors}
    ELSE {mergeLoop(<<sorted[1]>>, Tail(sorted)) : sorted \in sortByMessage(errors)}

\* the entries handed to merge
MergePool ==
    {FieldError(sMsgA, <<sFoo>>, <<>>), FieldError(sMsgA, <<sBar>>, sDash),
     FieldError(sMsgA, <<sBar, sFoo>>, <<>>), FieldError(sMsgA, <<sBaz, sBaz>>, <<>>),
     ErrMissingField(<<sFoo>>)}

MergeInputs == SeqsUpTo(MergePool, MaxErrors)

InitMerge ==
    /\ fe = NilFieldError
    /\ last = NoCall
    /\ NoManager

\* merge(errors)
CallMerge ==
    /\ \E errors \in MergeInputs :
          \E newErrors \in merge(errors) :
              last' = [NoCall EXCEPT !.op = "merge", !.errs = errors, !.out = newErrors]
    /\ UNCHANGED fe
    /\ UNCHANGED cvars

NextMerge == CallMerge

SpecMerge == InitMerge /\ [][NextMerge]_vars

-----------------------------------------------------------------------------
(* The condition manager (src/apis/duck/v1alpha1/condition_set.go).  A      *)
(* *Condition is a record [nil, v]; the list held by the accessor is the    *)
(* variable conditions; time.Now() reads the variable now, which advances   *)
(* with every reading.                                                      *)

MaxClock == 6

ConditionTrue == "True"

ConditionFalse == "False"

ConditionUnknown == "Unknown"

ConditionReady == <<"R", "e", "a", "d", "y">>

tBar == <<"B", "a", "r">>

tFoo == <<"F", "o", "o">>

sReason == <<"r">>

sFormat == <<"m">>

\* what fmt.Sprintf appends for one surplus argument that is an empty []interface{}
sExtraEmptySlice ==
    <<"%", "!", "(", "E", "X", "T", "R", "A", " ", "[", "]", "i", "n", "t", "e", "r",
      "f", "a", "c", "e", " ", "{", "}", "=", "[", "]", ")">>

\* fmt.Sprintf(messageFormat, messageA...) for a format without verbs: messageA is
\* either empty or, in the call of line 234, one argument that is the empty slice
Sprintf(messageFormat, messageA) ==
    IF messageA = <<>> THEN messageFormat ELSE messageFormat \o sExtraEmptySlice

\* Condition{Type: t, Status: status, Reason: reason, Message: message}
Condition(t, status, reason, message) ==
    [Type |-> t, Status |-> status, Reason |-> reason, Message |-> message,
     LastTransitionTime |-> 0]

NilCondition == [nil |-> TRUE]

\* c.IsTrue() and c.IsFalse() on a *Condition; nil is neither
IsTrue(c) == ~c.nil /\ c.v.Status = ConditionTrue

IsFalse(c) == ~c.nil /\ c.v.Status = ConditionFalse

contains(ct, t) == \E i \in 1..Len(ct) : ct[i] = t

RECURSIVE newConditionSetLoop(_, _, _)
newConditionSetLoop(deps, dependents, happy) ==
    IF dependents = <<>> THEN deps
    ELSE LET d == Head(dependents)
         IN  newConditionSetLoop(IF d = happy \/ contains(deps, d) THEN deps
                                 ELSE Append(deps, d),
                                 Tail(dependents), happy)

newConditionSet(happy, dependents) ==
    [happy |-> happy, dependents |-> newConditionSetLoop(<<>>, dependents, happy)]

NewLivingConditionSet(d) == newConditionSet(ConditionReady, d)

\* r.Manage(accessor); accessorNil says that the accessor is nil
Manage(r, accessorNil) ==
    [happy |-> r.happy, dependents |-> r.dependents, accessorNil |-> accessorNil]

\* r.GetCondition(t) on the list conds held by the accessor
GetCondition(r, conds, t) ==
    IF r.accessorNil THEN NilCondition
    ELSE IF \E i \in 1..Len(conds) : conds[i].Type = t
    THEN [nil |-> FALSE,
          v |-> conds[CHOOSE i \in 1..Len(conds) :
                         conds[i].Type = t /\ \A j \in 1..(i - 1) : conds[j].Type # t]]
    ELSE NilCondition

\* r.IsHappy()
IsHappy(r, conds) == IsTrue(GetCondition(r, conds, r.happy))

\* the loop of SetCondition over the held conditions; sc is [returned, new, conditions]
RECURSIVE setConditionLoop(_, _)
setConditionLoop(sc, held) ==
    IF held = <<>> \/ sc.returned THEN sc
    ELSE LET c == Head(held)
         IN  IF c.Type # sc.new.Type
             THEN setConditionLoop([sc EXCEPT !.conditions = Append(@, c)], Tail(held))
             ELSE LET new == [sc.new EXCEPT !.LastTransitionTime = c.LastTransitionTime]
                  IN  setConditionLoop([sc EXCEPT !.new = new, !.returned = (new = c)],
                                       Tail(held))

RECURSIVE insertCondition(_, _)
insertCondition(sorted, c) ==
    IF sorted = <<>> THEN <<c>>
    ELSE IF StringLess(c.Type, Head(sorted).Type) THEN <<c>> \o sorted
    ELSE <<Head(sorted)>> \o insertCondition(Tail(sorted), c)

\* SetCondition without line 186: the new condition stays at the end of the list
sortConditions_Unsorted(conds) == conds

\* sort.Slice(conditions, func(i, j int) bool { return conditions[i].Type < conditions[j].Type })
RECURSIVE sortConditions(_)
sortConditions(conds) ==
    IF conds = <<>> THEN <<>>
    ELSE insertCondition(sortConditions(SubSeq(conds, 1, Len(conds) - 1)),
                         conds[Len(conds)])

\* r.SetCondition(new) on the store st = [conditions, now]
SetCondition(r, st, new) ==
    IF r.accessorNil THEN st
    ELSE LET sc == setConditionLoop([returned |-> FALSE, new |-> new, conditions |-> <<>>],
                                    st.conditions)
         IN  IF sc.returned THEN st
             ELSE [conditions |->
                       sortConditions(Append(sc.conditions,
                                             [sc.new EXCEPT !.LastTransitionTime = st.now])),
                   now |-> st.now + 1]

\* the loop of lines 200-206 leaving after its first round: only the first dependent
\* is tested
allDependentsTrue_FirstOnly(r, conds) ==
    r.dependents = <<>> \/ IsTrue(GetCondition(r, conds, r.dependents[1]))

\* the dependents all pass the test of line 203
allDependentsTrue(r, conds) ==
    \A i \in 1..Len(r.dependents) : IsTrue(GetCondition(r, conds, r.dependents[i]))

\* MarkTrue without the check of the dependents: the happy condition is always set
MarkTrue_AlwaysHappy(r, st, t) ==
    SetCondition(r, SetCondition(r, st, Condition(t, ConditionTrue, <<>>, <<>>)),
                 Condition(r.happy, ConditionTrue, <<>>, <<>>))

\* r.MarkTrue(t)
MarkTrue(r, st, t) ==
    LET s1 == SetCondition(r, st, Condition(t, ConditionTrue, <<>>, <<>>))
    IN  IF allDependentsTrue(r, s1.conditions)
        THEN SetCondition(r, s1, Condition(r.happy, ConditionTrue, <<>>, <<>>))
        ELSE s1

\* MarkFalse writing t only
MarkFalse_OnlyT(r, st, t, reason, messageFormat, messageA) ==
    SetCondition(r, st, Condition(t, ConditionFalse, reason,
                                  Sprintf(messageFormat, messageA)))

\* r.MarkFalse(t, reason, messageFormat, messageA...)
MarkFalse(r, st, t, reason, messageFormat, messageA) ==
    LET c(type) == Condition(type, ConditionFalse, reason, Sprintf(messageFormat, messageA))
    IN  SetCondition(r, SetCondition(r, st, c(t)), c(r.happy))

\* some dependent passes the test of line 230
someDependentFalse(r, conds) ==
    \E i \in 1..Len(r.dependents) : IsFalse(GetCondition(r, conds, r.dependents[i]))

\* MarkUnknown without the check of the dependents: the happy condition is always
\* set to Unknown
MarkUnknown_NoTrump(r, st, t, reason, messageFormat, messageA) ==
    LET c(type) == Condition(type, ConditionUnknown, reason,
                             Sprintf(messageFormat, messageA))
    IN  SetCondition(r, SetCondition(r, st, c(t)), c(r.happy))

\* r.MarkUnknown(t, reason, messageFormat, messageA...); line 234 hands messageA on as
\* one argument
MarkUnknown(r, st, t, reason, messageFormat, messageA) ==
    LET s1 == SetCondition(r, st, Condition(t, ConditionUnknown, reason,
                                            Sprintf(messageFormat, messageA)))
    IN  IF someDependentFalse(r, s1.conditions)
        THEN IF ~IsFalse(GetCondition(r, s1.conditions, r.happy))
             THEN MarkFalse(r, s1, r.happy, reason, messageFormat, <<messageA>>)
             ELSE s1
        ELSE SetCondition(r, s1, Condition(r.happy, ConditionUnknown, reason,
                                           Sprintf(messageFormat, messageA)))

\* r.InitializeCondition(t)
InitializeCondition(r, st, t) ==
    IF GetCondition(r, st.conditions, t).nil
    THEN SetCondition(r, st, Condition(t, ConditionUnknown, <<>>, <<>>))
    ELSE st

RECURSIVE initializeEach(_, _, _)
initializeEach(r, st, types) ==
    IF types = <<>> THEN st
    ELSE initializeEach(r, InitializeCondition(r, st, Head(types)), Tail(types))

\* r.InitializeConditions()
InitializeConditions(r, st) == initializeEach(r, st, Append(r.dependents, r.happy))

-----------------------------------------------------------------------------
(* A resource marking its conditions.                                      *)

Types == {ConditionReady, tBar, tFoo}

Statuses == {ConditionTrue, ConditionFalse, ConditionUnknown}

Reasons == {sReason}

\* the dependents handed to NewLivingConditionSet
DependentLists == {<<tFoo, tBar>>, <<tFoo, ConditionReady, tFoo>>, <<>>}

\* the store the manager's calls work on
Store == [conditions |-> conditions, now |-> now]

InitManager ==
    /\ fe = NilFieldError
    /\ last = NoCall
    /\ \E d \in DependentLists, accessorNil \in BOOLEAN :
          manager = Manage(NewLivingConditionSet(d), accessorNil)
    /\ conditions = <<>>
    /\ now = 0
    /\ call = NoManagerCall

\* the store after a call, and the record of the call
Called(st, op, t) ==
    /\ now + 3 <= MaxClock
    /\ conditions' = st.conditions
    /\ now' = st.now
    /\ call' = [op |-> op, t |-> t,
                happyBefore |-> GetCondition(manager, conditions, manager.happy)]
    /\ UNCHANGED <<manager, fe, last>>

SetConditionOn(types) ==
    \E t \in types, status \in Statuses, reason \in Reasons :
       Called(SetCondition(manager, Store, Condition(t, status, reason, <<>>)),
              "SetCondition", t)

MarkTrueOn(types) ==
    \E t \in types : Called(MarkTrue(manager, Store, t), "MarkTrue", t)

MarkUnknownOn(types) ==
    \E t \in types, reason \in Reasons :
       Called(MarkUnknown(manager, Store, t, reason, sFormat, <<>>), "MarkUnknown", t)

MarkFalseOn(types) ==
    \E t \in types, reason \in Reasons :
       Called(MarkFalse(manager, Store, t, reason, sFormat, <<>>), "MarkFalse", t)

InitializeConditionOn(types) ==
    \E t \in types :
       Called(InitializeCondition(manager, Store, t), "InitializeCondition", t)

CallSetCondition == SetConditionOn(Types)

CallMarkTrue == MarkTrueOn(Types)

CallMarkUnknown == MarkUnknownOn(Types)

CallMarkFalse == MarkFalseOn(Types)

CallInitializeCondition == InitializeConditionOn(Types)

CallInitializeConditions ==
    Called(InitializeConditions(manager, Store), "InitializeConditions", <<>>)

NextManager ==
    \/ CallSetCondition
    \/ CallMarkTrue
    \/ CallMarkUnknown
    \/ CallMarkFalse
    \/ CallInitializeCondition
    \/ CallInitializeConditions

SpecManager == InitManager /\ [][NextManager]_vars

\* the same resource when it marks and initializes only types other than the happy one
OtherTypes == Types \ {ConditionReady}

MarkTrueOther == MarkTrueOn(OtherTypes)

MarkUnknownOther == MarkUnknownOn(OtherTypes)

MarkFalseOther == MarkFalseOn(OtherTypes)

InitializeConditionOther == InitializeConditionOn(OtherTypes)

NextMarking ==
    \/ MarkTrueOther
    \/ MarkUnknownOther
    \/ MarkFalseOther
    \/ InitializeConditionOther
    \/ CallInitializeConditions

SpecMarking == InitManager /\ [][NextMarking]_vars

-----------------------------------------------------------------------------
(* Vocabulary of the properties.                                           *)

\* the normalized entries of an accumulator, as a function from keys to entries
Entries(f) == getNormalizedErrors(f).m

\* an entry without its representation: message, details and paths
Triple(e) == [Message |-> e.Message, Details |-> e.Details, Paths |-> e.Paths]

EntrySet(f) == {Triple(Entries(f)[k]) : k \in DOMAIN Entries(f)}

\* every (message, details, path) found in the normalized entries of f
PathTriples(f) ==
    {<<e.Message, e.Details, e.Paths[i]>> :
        <<e, i>> \in UNION {{<<t, j>> : j \in 1..Len(t.Paths)} : t \in EntrySet(f)}}

IsLeaf(f) == ~f.nil /\ f.Message # <<>> /\ f.errors = NilMap

NoDuplicates(paths) == \A i, j \in 1..Len(paths) : paths[i] = paths[j] => i = j

\* a followed by the strings of b that are not in a, each once, in the order of b
RECURSIVE FirstSeenUnion(_, _)
FirstSeenUnion(a, b) ==
    IF b = <<>> THEN a
    ELSE IF \E i \in 1..Len(a) : a[i] = Head(b) THEN FirstSeenUnion(a, Tail(b))
    ELSE FirstSeenUnion(Append(a, Head(b)), Tail(b))

PrefixOps == {"ViaField", "ViaIndex", "ViaFieldIndex", "ViaKey", "ViaFieldKey"}

\* The range order of a map never shows in getNormalizedErrors: in every accumulator
\* the program builds, the nested entries are leaves or zero values stored under their
\* own key, so no two of them are merged.
RangeOrderImmaterial ==
    \A f \in {fe, last.recv, last.res} :
        /\ \A ord \in RangeOrders(f.errors.m) :
              getNormalizedErrorsIn(f, ord) = getNormalizedErrors(f)
        /\ f.Message = <<>> \/ f.errors = NilMap
        /\ \A k \in DOMAIN f.errors.m :
              LET e == f.errors.m[k]
              IN  e.errors = NilMap /\ (e = ZeroFieldError \/ key(e) = k)
        /\ Cardinality(DOMAIN Entries(f)) <= 1

-----------------------------------------------------------------------------
(* C1..C10.                                                                *)

\* C1: Also never drops an error: when a.Also(b1, ..., bn) with non-nil b1..bn
\* returns, every (message, details, path) of the normalized entries of a and of each
\* bi is among the normalized entries of the result.
C1_AlsoNeverDrops ==
    (/\ last.op = "Also"
     /\ ~last.panic
     /\ \A i \in 1..Len(last.errs) : ~last.errs[i].nil)
    => /\ PathTriples(last.recv) \subseteq PathTriples(last.res)
       /\ \A i \in 1..Len(last.errs) :
             PathTriples(last.errs[i]) \subseteq PathTriples(last.res)

\* C2: Also is safe on a nil receiver: (nil).Also(x) for a leaf x does not panic and
\* returns a non-nil accumulator with the normalized entries of x.
C2_AlsoOnNilReceiver ==
    (/\ last.op = "Also"
     /\ last.recv.nil
     /\ Len(last.errs) = 1
     /\ IsLeaf(last.errs[1]))
    => /\ ~last.panic
       /\ ~last.res.nil
       /\ Entries(last.res) = Entries(last.errs[1])

\* C3: a nil or empty argument contributes nothing: x.Also(nil) and
\* x.Also(&FieldError{}) do not panic and return the normalized entries of x.
C3_NilOrEmptyArgument ==
    (/\ last.op = "Also"
     /\ Len(last.errs) = 1
     /\ last.errs[1] \in {NilFieldError, ZeroFieldError})
    => /\ ~last.panic
       /\ Entries(last.res) = Entries(last.recv)

\* C4: absence of error is nil: a value returned by Also or ViaField is nil exactly
\* when it has no normalized entries.
C4_NilIffNoEntries ==
    (last.op \in {"Also", "ViaField"} /\ ~last.panic)
    => (last.res.nil <=> Entries(last.res) = EmptyEntries)

\* C5: Error() on a nil *FieldError returns the empty string and does not panic.
C5_ErrorOnNil ==
    (last.op = "Error" /\ last.recv.nil)
    => (~last.panic /\ last.out = <<>>)

\* C6: nil propagates through every prefix operation: ViaField, ViaIndex, ViaKey,
\* ViaFieldIndex and ViaFieldKey on a nil accumulator return nil, without a panic.
C6_NilPropagates ==
    (last.op \in PrefixOps /\ last.recv.nil)
    => (~last.panic /\ last.res.nil)

\* a nil accumulator went through ViaFieldIndex, which chains ViaIndex and ViaField
C6_Witness ==
    /\ last.op = "ViaFieldIndex"
    /\ last.recv.nil
    /\ last.res.nil

\* C7: ViaField prefixes every path and keeps everything else: the normalized entries
\* of e.ViaField(s1, ..., sn) are those of e, with the same message and details and
\* each path p replaced by flatten([s1, ..., sn, p]).
C7_ViaFieldPrefixesPaths ==
    (last.op = "ViaField" /\ ~last.recv.nil)
    => /\ ~last.panic
       /\ EntrySet(last.res) =
             {[t EXCEPT !.Paths = [i \in 1..Len(t.Paths) |->
                                     flatten(Append(last.prefix, t.Paths[i]))]] :
                 t \in EntrySet(last.recv)}

\* C8: merge by key: for leaves a and b with the same message and the same details,
\* a.Also(b) has exactly one normalized entry, whose paths are a's paths followed by
\* the paths of b not already present.
C8_MergeByKey ==
    (/\ last.op = "Also"
     /\ IsLeaf(last.recv)
     /\ NoDuplicates(last.recv.Paths)
     /\ Len(last.errs) = 1
     /\ IsLeaf(last.errs[1])
     /\ last.errs[1].Message = last.recv.Message
     /\ last.errs[1].Details = last.recv.Details)
    => /\ ~last.panic
       /\ EntrySet(last.res) =
             {[Triple(last.recv) EXCEPT
                  !.Paths = FirstSeenUnion(last.recv.Paths, last.errs[1].Paths)]}

\* C9: the dedup key is message+details: leaves a and b that differ in message or in
\* details stay separate entries of a.Also(b), each with its own message, details and
\* paths.
C9_DistinctLeavesStaySeparate ==
    (/\ last.op = "Also"
     /\ IsLeaf(last.recv)
     /\ Len(last.errs) = 1
     /\ IsLeaf(last.errs[1])
     /\ \/ last.errs[1].Message # last.recv.Message
        \/ last.errs[1].Details # last.recv.Details)
    => /\ ~last.panic
       /\ EntrySet(last.res) = {Triple(last.recv), Triple(last.errs[1])}
       /\ Cardinality(DOMAIN Entries(last.res)) = 2

\* the outcomes of a.ViaField(x).Also(b.ViaField(x))
PrefixThenAlso(a, b, x) ==
    UNION {IF ra.panic THEN {ra}
           ELSE {IF rb.panic THEN rb ELSE Also(ra.val, <<rb.val>>) :
                    rb \in ViaFieldOutcomes(b, <<x>>)} :
              ra \in ViaFieldOutcomes(a, <<x>>)}

\* the outcomes of a.Also(b).ViaField(x)
AlsoThenPrefix(a, b, x) ==
    LET r == Also(a, <<b>>)
    IN  IF r.panic THEN {r} ELSE ViaFieldOutcomes(r.val, <<x>>)

\* C10: ViaField commutes with Also: a.Also(b).ViaField(x) and
\* a.ViaField(x).Also(b.ViaField(x)) have the same normalized entries.
C10_ViaFieldCommutesWithAlso ==
    (last.op = "Also" /\ Len(last.errs) = 1)
    => \A x \in Fields :
          \A l \in AlsoThenPrefix(last.recv, last.errs[1], x) :
             \A r \in PrefixThenAlso(last.recv, last.errs[1], x) :
                /\ ~l.panic
                /\ ~r.panic
                /\ EntrySet(l.val) = EntrySet(r.val)

-----------------------------------------------------------------------------
(* C11..C20.                                                               *)

\* a path that is one plain segment: not empty, no dot, no bracket
IsSegment(p) == p # <<>> /\ \A i \in 1..Len(p) : p[i] \notin {".", "[", "]"}

\* C11: prefixes nest outward: for a leaf e, e.ViaField(b).ViaField(a) and
\* e.ViaField(a, b) yield the same entries, with every path p of e turned into a.b.p
\* (the later call's segment to the left); with b an index, into a[i].p.
C11_PrefixesNestOutward ==
    (/\ last.op = "ViaField"
     /\ IsLeaf(last.recv)
     /\ \A i \in 1..Len(last.recv.Paths) : IsSegment(last.recv.Paths[i])
     /\ Len(last.prefix) = 1)
    => /\ ~last.panic
       /\ \A a \in Fields :
             LET b == last.prefix[1]
                 expected ==
                     {[Triple(last.recv) EXCEPT
                          !.Paths = [i \in 1..Len(@) |->
                                        IF isIndex(b) THEN a \o b \o <<".">> \o @[i]
                                        ELSE a \o <<".">> \o b \o <<".">> \o @[i]]]}
             IN  /\ \A r \in ViaFieldOutcomes(last.res, <<a>>) :
                       ~r.panic /\ EntrySet(r.val) = expected
                 /\ \A r \in ViaFieldOutcomes(last.recv, <<a, b>>) :
                       ~r.panic /\ EntrySet(r.val) = expected

\* C12: a key attaches to the field given by the next ViaField: a leaf with path p
\* prefixed by ViaKey(k) and then ViaField(f) has the path f[k].p.
C12_KeyAttachesToNextField ==
    (/\ last.op = "ViaKey"
     /\ IsLeaf(last.recv)
     /\ \A i \in 1..Len(last.recv.Paths) : IsSegment(last.recv.Paths[i]))
    => /\ ~last.panic
       /\ \A f \in Fields : \A r \in ViaFieldOutcomes(last.res, <<f>>) :
             /\ ~r.panic
             /\ EntrySet(r.val) =
                   {[Triple(last.recv) EXCEPT
                        !.Paths = [i \in 1..Len(@) |->
                                      f \o <<"[">> \o last.key \o <<"]", ".">> \o @[i]]]}

C14_ErrorDoesNotMutate ==
    last.op = "Error" => (last.recvAfter = last.recv /\ fe = last.recv)

\* the arrangements of a list of paths
Arrangements(paths) ==
    LET n == Len(paths)
    IN  {[i \in 1..n |-> paths[pi[i]]] :
            pi \in {f \in [1..n -> 1..n] : \A i, j \in 1..n : f[i] = f[j] => i = j}}

Ascending(strings) ==
    \A i, j \in 1..Len(strings) : i < j => ~StringLess(strings[j], strings[i])

\* "<message>: <paths joined by ', '>", then a newline and the details when there are any
Line(e, paths) ==
    e.Message \o <<":", " ">> \o Join(paths, <<",", " ">>)
    \o (IF e.Details # <<>> THEN <<"\n">> \o e.Details ELSE <<>>)

\* C15: rendering is sorted: in the string returned by Error() the entries are in
\* ascending order of message and, within an entry, the paths in ascending order,
\* whatever the order of the receiver's entries and paths.
C15_RenderingIsSorted ==
    (last.op = "Error" /\ ~last.recv.nil)
    => /\ ~last.panic
       /\ LET m == Entries(last.recv)
          IN  \E ord \in RangeOrders(m) :
                 /\ Ascending([i \in 1..Len(ord) |-> m[ord[i]].Message])
                 /\ last.out =
                       Join([i \in 1..Len(ord) |->
                                Line(m[ord[i]],
                                     CHOOSE q \in Arrangements(m[ord[i]].Paths) :
                                         Ascending(q))],
                            <<"\n">>)

\* Error was called on two entries with different messages, the lesser one holding
\* its paths in descending order
C15_Witness ==
    /\ last.op = "Error"
    /\ ~last.panic
    /\ Cardinality(DOMAIN Entries(last.recv)) = 2
    /\ \E k1, k2 \in DOMAIN Entries(last.recv) :
          /\ StringLess(Entries(last.recv)[k1].Message, Entries(last.recv)[k2].Message)
          /\ ~Ascending(Entries(last.recv)[k1].Paths)
    /\ last.out # <<>>

\* C16: rendering format: every normalized entry is rendered as its message, ": ",
\* its paths joined by ", ", followed exactly when its details are non-empty by a
\* newline and the details verbatim; the entries are joined by newlines; a leaf
\* with no paths renders as "<message>: "; no details are dropped.
C16_RenderingFormat ==
    (last.op = "Error" /\ ~last.recv.nil)
    => /\ ~last.panic
       /\ LET m == Entries(last.recv)
          IN  \E ord \in RangeOrders(m) :
                 \E paths \in [DOMAIN m -> UNION {Arrangements(m[k].Paths) : k \in DOMAIN m}] :
                    /\ \A k \in DOMAIN m : paths[k] \in Arrangements(m[k].Paths)
                    /\ last.out =
                          Join([i \in 1..Len(ord) |-> Line(m[ord[i]], paths[ord[i]])],
                               <<"\n">>)
       /\ (IsLeaf(last.recv) /\ last.recv.Paths = <<>> /\ last.recv.Details = <<>>)
             => last.out = last.recv.Message \o <<":", " ">>

\* Error was called on two entries, one with details and one with two paths and no
\* details
C16_Witness ==
    /\ last.op = "Error"
    /\ ~last.panic
    /\ Cardinality(DOMAIN Entries(last.recv)) = 2
    /\ \E k1, k2 \in DOMAIN Entries(last.recv) :
          /\ Entries(last.recv)[k1].Details # <<>>
          /\ Entries(last.recv)[k2].Details = <<>>
          /\ Len(Entries(last.recv)[k2].Paths) = 2

Content(f) ==
    {[Message |-> t.Message, Details |-> t.Details,
      Paths |-> {t.Paths[i] : i \in 1..Len(t.Paths)}] : t \in EntrySet(f)}

\* C18: Also is commutative on rendered content: for non-nil a and b, a.Also(b) and
\* b.Also(a) hold the same entries (messages, details and path sets).
C18_AlsoCommutes ==
    (/\ last.op = "Also"
     /\ Len(last.errs) = 1
     /\ ~last.recv.nil
     /\ ~last.errs[1].nil)
    => /\ ~last.panic
       /\ LET ba == Also(last.errs[1], <<last.recv>>)
          IN  ~ba.panic /\ Content(ba.val) = Content(last.res)

\* C19: Also is associative on rendered content: for non-nil a, b and c,
\* a.Also(b).Also(c), a.Also(b.Also(c)) and a.Also(b, c) hold the same entries.
C19_AlsoAssociates ==
    (/\ last.op = "Also"
     /\ Len(last.errs) = 2
     /\ ~last.recv.nil
     /\ \A i \in 1..2 : ~last.errs[i].nil)
    => /\ ~last.panic
       /\ LET a == last.recv
              b == last.errs[1]
              c == last.errs[2]
              ab == Also(a, <<b>>)
              bc == Also(b, <<c>>)
              ab_c == Also(ab.val, <<c>>)
              a_bc == Also(a, <<bc.val>>)
          IN  /\ ~ab.panic /\ ~bc.panic /\ ~ab_c.panic /\ ~a_bc.panic
              /\ Content(ab_c.val) = Content(last.res)
              /\ Content(a_bc.val) = Content(last.res)

\* a.Also(b, c) was called on three leaves with three different keys
C19_Witness ==
    /\ last.op = "Also"
    /\ ~last.panic
    /\ Len(last.errs) = 2
    /\ IsLeaf(last.recv) /\ IsLeaf(last.errs[1]) /\ IsLeaf(last.errs[2])
    /\ Cardinality({key(last.recv), key(last.errs[1]), key(last.errs[2])}) = 3
    /\ Content(last.res) # {}

\* the message each constructor is to give
CanonicalMessage ==
    [ErrMissingField |->
         <<"m", "i", "s", "s", "i", "n", "g", " ", "f", "i", "e", "l", "d",
           "(", "s", ")">>,
     ErrDisallowedFields |->
         <<"m", "u", "s", "t", " ", "n", "o", "t", " ", "s", "e", "t", " ",
           "t", "h", "e", " ", "f", "i", "e", "l", "d", "(", "s", ")">>,
     ErrMissingOneOf |->
         <<"e", "x", "p", "e", "c", "t", "e", "d", " ", "e", "x", "a", "c",
           "t", "l", "y", " ", "o", "n", "e", ",", " ", "g", "o", "t", " ",
           "n", "e", "i", "t", "h", "e", "r">>,
     ErrMultipleOneOf |->
         <<"e", "x", "p", "e", "c", "t", "e", "d", " ", "e", "x", "a", "c",
           "t", "l", "y", " ", "o", "n", "e", ",", " ", "g", "o", "t", " ",
           "b", "o", "t", "h">>,
     ErrInvalidValue |->
         <<"i", "n", "v", "a", "l", "i", "d", " ", "v", "a", "l", "u", "e",
           " ">>,
     ErrInvalidKeyName |->
         <<"i", "n", "v", "a", "l", "i", "d", " ", "k", "e", "y", " ", "n",
           "a", "m", "e", " ">>]

\* v with a backslash before every double quote and backslash in it
RECURSIVE Escaped(_)
Escaped(v) ==
    IF v = <<>> THEN <<>>
    ELSE (IF Head(v) \in {"\"", "\\"} THEN <<"\\">> ELSE <<>>)
         \o <<Head(v)>> \o Escaped(Tail(v))

\* what the last constructor call returned is the canonical leaf, the value of
\* ErrInvalidValue and ErrInvalidKeyName standing between the double quotes either
\* escaped or as given
CanonicalLeaf(escaped) ==
    /\ last.op \in {"ErrMissingField", "ErrDisallowedFields",
                    "ErrMissingOneOf", "ErrMultipleOneOf"}
          => last.res = [nil |-> FALSE, Message |-> CanonicalMessage[last.op],
                         Paths |-> last.paths, Details |-> <<>>, errors |-> NilMap]
    /\ last.op \in {"ErrInvalidValue", "ErrInvalidKeyName"}
          => last.res =
                [nil |-> FALSE,
                 Message |-> CanonicalMessage[last.op] \o <<"\"">>
                             \o (IF escaped THEN Escaped(last.value) ELSE last.value)
                             \o <<"\"">>,
                 Paths |-> <<last.fieldPath>>,
                 Details |-> IF last.details = <<>> THEN <<>>
                             ELSE Join(last.details, <<",", " ">>),
                 errors |-> NilMap]

-----------------------------------------------------------------------------
(* C21..C25: the condition manager.                                        *)

\* the status of the condition of type t, "" when there is none
StatusOf(t) ==
    LET c == GetCondition(manager, conditions, t)
    IN  IF c.nil THEN "" ELSE c.v.Status

Happy == GetCondition(manager, conditions, manager.happy)

\* C21: MarkFalse sets both: after MarkFalse(t, ...) on a manager with a non-nil
\* accessor the condition of type t and the happy condition both exist with status
\* False, whatever the conditions were before.
C21_MarkFalseSetsBoth ==
    (call.op = "MarkFalse" /\ ~manager.accessorNil)
    => /\ StatusOf(call.t) = ConditionFalse
       /\ StatusOf(manager.happy) = ConditionFalse

\* MarkFalse was called on a dependent while the happy condition was True
C21_Witness ==
    /\ call.op = "MarkFalse"
    /\ ~manager.accessorNil
    /\ call.t # manager.happy
    /\ ~call.happyBefore.nil
    /\ call.happyBefore.v.Status = ConditionTrue
    /\ StatusOf(manager.happy) = ConditionFalse

\* every dependent of the set has the status True
DependentsAllTrue ==
    \A i \in 1..Len(manager.dependents) : StatusOf(manager.dependents[i]) = ConditionTrue

\* some dependent of the set has the status False
DependentFalse ==
    \E i \in 1..Len(manager.dependents) : StatusOf(manager.dependents[i]) = ConditionFalse

\* after MarkTrue(t), t not the happy type: t is True; the happy condition is True if
\* every dependent is True and otherwise as it was before the call
MarkTrueAggregates ==
    /\ StatusOf(call.t) = ConditionTrue
    /\ DependentsAllTrue => StatusOf(manager.happy) = ConditionTrue
    /\ ~DependentsAllTrue => Happy = call.happyBefore

\* C22 as stated, for every manager: MarkTrue aggregates.
C22_AnyAccessor ==
    (call.op = "MarkTrue" /\ call.t # manager.happy) => MarkTrueAggregates

\* C22: MarkTrue aggregates: on a manager with a non-nil accessor, after MarkTrue(t)
\* for a type t other than the happy type, condition t has status True, the happy
\* condition is True if every dependent is True at that point, and is left exactly
\* as it was if some dependent is False, Unknown or not set.
C22_MarkTrueAggregates ==
    (call.op = "MarkTrue" /\ call.t # manager.happy /\ ~manager.accessorNil)
    => MarkTrueAggregates

\* MarkTrue was called on one dependent while another was not True and the happy
\* condition was held
C22_Witness ==
    /\ call.op = "MarkTrue"
    /\ ~manager.accessorNil
    /\ contains(manager.dependents, call.t)
    /\ ~DependentsAllTrue
    /\ ~call.happyBefore.nil
    /\ Happy = call.happyBefore

\* after MarkUnknown(t, ...): the happy condition is Unknown if no dependent is False
\* and False if some dependent is False; t is Unknown, for every t or for every t
\* but the happy type
MarkUnknownAggregates(everyType) ==
    /\ (everyType \/ call.t # manager.happy) => StatusOf(call.t) = ConditionUnknown
    /\ ~DependentFalse => StatusOf(manager.happy) = ConditionUnknown
    /\ DependentFalse => StatusOf(manager.happy) = ConditionFalse

\* C23 as stated, for every manager and every type t: MarkUnknown aggregates.
C23_AnyTypeAnyAccessor ==
    call.op = "MarkUnknown" => MarkUnknownAggregates(TRUE)

\* C23: MarkUnknown aggregates: on a manager with a non-nil accessor, after
\* MarkUnknown(t, ...) the happy condition is Unknown if no dependent condition is
\* False and False if some dependent condition is False, and condition t has status
\* Unknown when t is not the happy type.
C23_MarkUnknownAggregates ==
    (call.op = "MarkUnknown" /\ ~manager.accessorNil) => MarkUnknownAggregates(FALSE)

\* MarkUnknown was called on one dependent while another was False
C23_Witness ==
    /\ call.op = "MarkUnknown"
    /\ ~manager.accessorNil
    /\ contains(manager.dependents, call.t)
    /\ DependentFalse
    /\ StatusOf(call.t) = ConditionUnknown
    /\ StatusOf(manager.happy) = ConditionFalse

\* C24: conditions are stored back sorted: after any sequence of SetCondition,
\* MarkTrue, MarkUnknown, MarkFalse, InitializeCondition and InitializeConditions
\* calls starting from an empty list, the list held by the accessor is ascending by
\* Type and holds at most one condition per Type.
C24_StoredSorted ==
    \A i, j \in 1..Len(conditions) :
       i < j => StringLess(conditions[i].Type, conditions[j].Type)

\* three conditions are held and the one stored last has the least Type
C24_Witness ==
    /\ Len(conditions) = 3
    /\ call.op = "SetCondition"
    /\ call.t = tBar
    /\ conditions[1].Type = tBar
    /\ conditions[1].LastTransitionTime > conditions[2].LastTransitionTime
    /\ conditions[1].LastTransitionTime > conditions[3].LastTransitionTime

\* C25: the happy condition is True only when all dependents are True: after any
\* sequence of MarkTrue, MarkUnknown, MarkFalse, InitializeCondition and
\* InitializeConditions calls on types other than the happy type, starting from an
\* empty list, whenever IsHappy() is true every dependent has status True.
C25_HappyOnlyWhenAllTrue ==
    IsHappy(manager, conditions) => DependentsAllTrue

\* the resource is happy with two dependents after the second of them was marked True
C25_Witness ==
    /\ IsHappy(manager, conditions)
    /\ Len(manager.dependents) = 2
    /\ call.op = "MarkTrue"
    /\ call.happyBefore.nil

-----------------------------------------------------------------------------
(* C26..C30: flatten, normalization and merge.                             *)

\* the fragments of a part: the runs between its dots, empty ones included
Fragments(part) ==
    LET cuts == {0, Len(part) + 1} \cup {i \in 1..Len(part) : part[i] = "."}
        nth(k) == CHOOSE c \in cuts : Cardinality({d \in cuts : d < c}) = k
    IN  [k \in 1..(Cardinality(cuts) - 1) |-> SubSeq(part, nth(k - 1) + 1, nth(k) - 1)]

RECURSIVE Concat(_)
Concat(seqs) == IF seqs = <<>> THEN <<>> ELSE Head(seqs) \o Concat(Tail(seqs))

\* the reference rule: the non-empty fragments of all parts in order, each after the
\* first preceded by a dot unless it has the form [...]
ReferenceFlatten(path) ==
    LET all == Concat([i \in 1..Len(path) |-> Fragments(path[i])])
        kept == SelectSeq(all, LAMBDA p : p # <<>>)
        bracketed(p) == Len(p) >= 2 /\ Head(p) = "[" /\ p[Len(p)] = "]"
    IN  Concat([i \in 1..Len(kept) |->
                   IF i = 1 \/ bracketed(kept[i]) THEN kept[i] ELSE <<".">> \o kept[i]])

\* the examples of the rule: the path and the string it is to give
FlattenExamples ==
    {<<<<sFoo, <<"[", "1", "]">>, <<"[", "2", "]">>, <<"[", "3", "]">>, sBar>>,
       <<"f", "o", "o", "[", "1", "]", "[", "2", "]", "[", "3", "]", ".", "b", "a", "r">>>>,
     <<<<sIndex0, sFoo, sBar>>,
       <<"[", "0", "]", ".", "f", "o", "o", ".", "b", "a", "r">>>>,
     <<<<sFoo, sBarIndexBaz>>,
       <<"f", "o", "o", ".", "b", "a", "r", "[", "0", "]", ".", "b", "a", "z">>>>,
     <<<<sBaz, <<"u", "g", "h">>, CurrentField>>,
       <<"b", "a", "z", ".", "u", "g", "h">>>>}

\* C26: flatten(path) equals the reference rule for every list of parts: split each
\* part on '.', drop every empty fragment, append a fragment of the form [...]
\* directly to the preceding kept segment (a leading one starts a segment of its
\* own), join the segments with '.'; the four examples give the stated strings.
C26_FlattenIsReference ==
    last.op = "flatten"
    => /\ last.out = ReferenceFlatten(last.paths)
       /\ \A ex \in FlattenExamples : last.paths = ex[1] => last.out = ex[2]

\* flatten was called on a path whose index follows an empty part and whose last
\* part opens a bracket without closing it
C26_Witness ==
    /\ last.op = "flatten"
    /\ last.paths = <<CurrentField, <<".", "[", "0", "]">>, <<"[">>>>
    /\ last.out = <<"[", "0", "]", ".", "[">>

\* C27: normalization de-duplicates: for any accumulator (a leaf built with any list
\* of paths, or any result of Also and ViaField), the normalized entries hold no two
\* entries with the same message and details, and no entry lists a path twice.
C27_NormalizationDeduplicates ==
    \A f \in {fe} \cup (IF last.op \in {"Also", "ViaField"} /\ ~last.panic
                        THEN {last.res} ELSE {}) :
        ~f.nil
        => /\ \A j, k \in DOMAIN Entries(f) :
                 (/\ Entries(f)[j].Message = Entries(f)[k].Message
                  /\ Entries(f)[j].Details = Entries(f)[k].Details) => j = k
           /\ \A k \in DOMAIN Entries(f) : NoDuplicates(Entries(f)[k].Paths)

\* C28: normalization is idempotent: for any accumulator e, normalizing the container
\* whose nested map is the normalized entries of e yields the identical entry set
\* (same keys, messages, details and paths) as normalizing e.
C28_NormalizationIdempotent ==
    \A f \in {fe, last.recv, last.res} :
        LET normalized == getNormalizedErrors(f)
            container == [ZeroFieldError EXCEPT !.errors = normalized]
        IN  \A ord \in RangeOrders(normalized.m) :
                getNormalizedErrorsIn(container, ord).m = normalized.m

\* Error has normalized a container of two entries, one of them without paths
C28_Witness ==
    /\ last.op = "Error"
    /\ ~last.panic
    /\ Cardinality(DOMAIN Entries(fe)) = 2
    /\ \E k \in DOMAIN Entries(fe) : Entries(fe)[k].Paths = <<>>

\* C29: leaf and container are mutually exclusive after normalization: every non-nil
\* accumulator returned by Also or ViaField is a pure container whose own Message is
\* empty, and every entry of its nested map is a leaf with a non-empty message and no
\* nested entries of its own.
C29_LeafOrContainer ==
    (/\ last.op \in {"Also", "ViaField"}
     /\ ~last.panic
     /\ ~last.res.nil)
    => /\ last.res.Message = <<>>
       /\ \A k \in DOMAIN last.res.errors.m :
             /\ last.res.errors.m[k].Message # <<>>
             /\ last.res.errors.m[k].errors.m = EmptyEntries

\* the paths of the entries of a list that have the message and details of e
PathsOf(errors, e) ==
    UNION {{errors[i].Paths[p] : p \in 1..Len(errors[i].Paths)} :
              i \in {j \in 1..Len(errors) : /\ errors[j].Message = e.Message
                                            /\ errors[j].Details = e.Details}}

\* C30: merge combines errors that differ only in their paths: for any list of leaf
\* entries, merge(errors) returns a list in which no two entries have both the same
\* message and the same details, each combined entry holding the union of the paths
\* of the entries it replaces with no path string twice.
C30_MergeCombines ==
    last.op = "merge"
    => /\ \A i, j \in 1..Len(last.out) :
             (/\ last.out[i].Message = last.out[j].Message
              /\ last.out[i].Details = last.out[j].Details) => i = j
       /\ \A i \in 1..Len(last.out) :
             /\ PathsOf(last.out, last.out[i]) = PathsOf(last.errs, last.out[i])
             /\ NoDuplicates(last.out[i].Paths)

====
